---- MODULE Spec2Model ----
(***************************************************************************)
(* A model of app.py, the Celtic Cross tarot reading script: the card      *)
(* catalog loader, the significator candidate filter, the TF-IDF selector, *)
(* the spread dealer, the layout choice and the sequence of streamed       *)
(* narrative calls of one reading.                                         *)
(*                                                                         *)
(* Texts (a card's symbol, the query, its translation) are sequences of    *)
(* pieces: a piece is a run of whitespace, a punctuation mark or a word.   *)
(* Card names and image ids are strings.  A card keeps the fields the      *)
(* reading flow reads to decide something: index, img_id, name, looking    *)
(* and symbol (japanese_name, upright and reversed are only copied into    *)
(* prompts and are left out).                                              *)
(***************************************************************************)
EXTENDS Integers, Sequences, FiniteSets, TLC

VARIABLES
    source,            \* the content of data/tarot_cards.json
    cards_db,          \* load_tarot_cards(): the cached catalog
    bad,               \* the number of elements load_tarot_cards skipped
    pc,                \* the position of the script's main flow
    sex, over_40, is_self, query_text,     \* the submitted form
    translated_query,
    candidates,
    sig_card,
    spread,
    all_cards,
    rotations,
    layout,
    css,               \* the left offsets render_layout_css gave .card-pos5/6
    calls,             \* the narrative calls started so far, in order
    stream,            \* the stream write_stream is consuming
    card_readings,
    conclusion_text,
    advice_text,
    error              \* what ended the run early, "none" otherwise

vars == <<source, cards_db, bad, pc, sex, over_40, is_self, query_text,
          translated_query, candidates, sig_card, spread, all_cards,
          rotations, layout, css, calls, stream, card_readings,
          conclusion_text, advice_text, error>>

(***************************************************************************)
(* Bounds of the model.                                                    *)
(***************************************************************************)
\* the most well-formed records a catalog file holds
MaxCards == 12
\* the random tapes generate_spread may draw from are numbered 0..MaxSeed
MaxSeed == 1
\* the most chunks one narrative stream yields
MaxChunks == 1

(***************************************************************************)
(* Program constants.                                                      *)
(***************************************************************************)
\* random.sample(pool, 10)
SpreadSize == 10

(***************************************************************************)
(* Texts.                                                                  *)
(***************************************************************************)
Range(s) == {s[i] : i \in 1..Len(s)}

Whitespace == {" "}
Punctuation == {"?"}

\* str.strip(): leading and trailing whitespace removed
RECURSIVE LStrip(_)
LStrip(t) == IF t # <<>> /\ Head(t) \in Whitespace THEN LStrip(Tail(t)) ELSE t

RECURSIVE RStrip(_)
RStrip(t) ==
    IF t # <<>> /\ t[Len(t)] \in Whitespace
    THEN RStrip(SubSeq(t, 1, Len(t) - 1))
    ELSE t

strip(t) == RStrip(LStrip(t))

\* str.lower() on the pieces the model uses
lower(p) ==
    CASE p = "Love" -> "love"
      [] p = "Sword" -> "sword"
      [] OTHER -> p

\* TfidfVectorizer's default analyzer: lowercase, then the tokens matching
\* (?u)\b\w\w+\b, i.e. the words of two or more characters
IsToken(p) == p \notin Whitespace /\ p \notin Punctuation /\ Len(p) >= 2

RECURSIVE Tokens(_)
Tokens(t) ==
    IF t = <<>> THEN <<>>
    ELSE IF IsToken(lower(Head(t)))
         THEN <<lower(Head(t))>> \o Tokens(Tail(t))
         ELSE Tokens(Tail(t))

(***************************************************************************)
(* The catalog file and its loader.                                        *)
(***************************************************************************)
Get(item, key, default) == IF key \in DOMAIN item THEN item[key] ELSE default

\* f"{idx:02d}"
Pad2(idx) == IF idx < 10 THEN "0" \o ToString(idx) ELSE ToString(idx)

\* int(item.get("index", 0)): an integer, a numeric string, or a value int()
\* raises on
IndexOk(item) == Get(item, "index", [k |-> "int", v |-> 0]).k \in {"int", "numstr"}
IndexOf(item) == Get(item, "index", [k |-> "int", v |-> 0]).v

\* An element the loader cannot turn into a card: a string that is no JSON,
\* JSON that is no object, or an index int() raises on.
Normalizable(raw) ==
    /\ raw.form \in {"dict", "str"}
    /\ raw.json = "object"
    /\ IndexOk(raw.item)

_normalize_item(raw) ==
    [index |-> IndexOf(raw.item),
     img_id |-> Pad2(IndexOf(raw.item)),
     name |-> Get(raw.item, "name", ""),
     looking |-> Get(raw.item, "looking", "unclear"),
     symbol |-> Get(raw.item, "symbol", <<>>)]

\* list.sort(key=index): stable, ascending
RECURSIVE InsertSorted(_, _)
InsertSorted(s, c) ==
    IF s = <<>> THEN <<c>>
    ELSE IF s[Len(s)].index <= c.index THEN Append(s, c)
    ELSE Append(InsertSorted(SubSeq(s, 1, Len(s) - 1), c), s[Len(s)])

RECURSIVE SortByIndex(_)
SortByIndex(s) ==
    IF s = <<>> THEN <<>>
    ELSE InsertSorted(SortByIndex(SubSeq(s, 1, Len(s) - 1)), s[Len(s)])

RECURSIVE NormalizeAll(_)
NormalizeAll(data) ==
    IF data = <<>> THEN <<>>
    ELSE IF Normalizable(Head(data))
         THEN <<_normalize_item(Head(data))>> \o NormalizeAll(Tail(data))
         ELSE NormalizeAll(Tail(data))

CountBad(data) == Cardinality({i \in 1..Len(data) : ~Normalizable(data[i])})

load_tarot_cards(src) ==
    IF src.kind # "list" THEN <<>> ELSE SortByIndex(NormalizeAll(src.data))

load_bad(src) == IF src.kind # "list" THEN 0 ELSE CountBad(src.data)

(***************************************************************************)
(* The catalog files the model reads.  File(n, style) holds n well-formed  *)
(* records; record i takes its fields from the tables below, read          *)
(* cyclically.  The file lists the records out of index order.  In style   *)
(* "dirty" record 3 is a JSON string holding the object, record 5 has no   *)
(* index, record 9 has its index as a numeric string, and elements that    *)
(* cannot be normalized are interleaved.                                   *)
(***************************************************************************)
Styles == {"clean", "dirty"}

Missing == "MISSING"

Names ==
    <<"The Fool", "Knight of", "Queens of Old", "Knight of Wands",
      "Queen of Cups", "King of Swords", "Page of Pentacles", "Ace of Wands",
      "Knight of Cups", "The Tower", "King of Wands", Missing>>

Lookings == <<"right", "left", "unclear", Missing, "Right">>

Symbols ==
    <<[s |-> <<"journey", " ", "love">>],
      [s |-> <<"Sword", " ", "love", "?", " ", "sword">>],
      [s |-> <<"Love">>],
      [s |-> Missing],
      [s |-> <<"love", " ", "a", " ", "journey">>],
      [s |-> <<"?">>],
      [s |-> <<"cup", " ", "sword">>]>>

Cyc(table, i) == table[((i - 1) % Len(table)) + 1]

NoFields == [k \in {} |-> 0]

Field(key, val) == IF val = Missing THEN NoFields ELSE key :> val

\* records are listed pairwise swapped: indices 1, 0, 3, 2, ...
FileIndex(i) == IF i % 2 = 1 THEN i ELSE i - 2

RawIndex(i, style) ==
    IF style = "dirty" /\ i = 5 THEN NoFields
    ELSE IF style = "dirty" /\ i = 9
         THEN "index" :> [k |-> "numstr", v |-> FileIndex(i)]
         ELSE "index" :> [k |-> "int", v |-> FileIndex(i)]

RawItem(i, style) ==
    RawIndex(i, style) @@ Field("name", Cyc(Names, i))
        @@ Field("looking", Cyc(Lookings, i))
        @@ (IF Cyc(Symbols, i).s = Missing THEN NoFields
            ELSE "symbol" :> Cyc(Symbols, i).s)

RawRecord(i, style) ==
    [form |-> IF style = "dirty" /\ i = 3 THEN "str" ELSE "dict",
     json |-> "object",
     item |-> RawItem(i, style)]

\* elements _normalize_item returns None for
Junk(i, style) ==
    IF style # "dirty" THEN <<>>
    ELSE CASE i = 1 -> <<[form |-> "str", json |-> "invalid", item |-> NoFields]>>
           [] i = 3 -> <<[form |-> "other", json |-> "number", item |-> NoFields]>>
           [] i = 4 -> <<[form |-> "str", json |-> "array", item |-> NoFields]>>
           [] i = 6 -> <<[form |-> "dict", json |-> "object",
                          item |-> "index" :> [k |-> "bad", v |-> 0]]>>
           [] OTHER -> <<>>

RECURSIVE File(_, _)
File(n, style) ==
    IF n = 0 THEN <<>>
    ELSE File(n - 1, style) \o <<RawRecord(n, style)>> \o Junk(n, style)

Sources ==
    {[kind |-> k, data |-> <<>>] : k \in {"missing", "unparseable", "not_list"}}
    \cup {[kind |-> "list", data |-> File(n, style)] :
              n \in 0..MaxCards, style \in Styles}

(***************************************************************************)
(* The candidate filter.  The form's sex options are written "male",       *)
(* "female" and "other" here.                                              *)
(***************************************************************************)
StartsWith(str, prefix) ==
    Len(str) >= Len(prefix) /\ SubSeq(str, 1, Len(prefix)) = prefix

is_court_of_rank(card_name, rank) == StartsWith(card_name, rank \o " of ")

\* a slip in the table: the two male ranks exchanged
Targets_swapped(sx, over) ==
    IF sx = "male" THEN (IF over THEN {"King"} ELSE {"Knight"})
    ELSE IF sx = "female" THEN (IF over THEN {"Queen"} ELSE {"Page"})
    ELSE (IF over THEN {"Knight", "Queen"} ELSE {"King", "Page"})

Targets(sx, over) ==
    IF sx = "male" THEN (IF over THEN {"Knight"} ELSE {"King"})
    ELSE IF sx = "female" THEN (IF over THEN {"Queen"} ELSE {"Page"})
    ELSE (IF over THEN {"Knight", "Queen"} ELSE {"King", "Page"})

all_courts == {"King", "Queen", "Knight", "Page"}

RECURSIVE Filter(_, _)
Filter(db, ranks) ==
    IF db = <<>> THEN <<>>
    ELSE IF \E r \in ranks : is_court_of_rank(Head(db).name, r)
         THEN <<Head(db)>> \o Filter(Tail(db), ranks)
         ELSE Filter(Tail(db), ranks)

\* the filter without its last fallback ("return courts")
get_candidate_cards_nofallback(db, self_flag, sx, over) ==
    IF ~self_flag THEN db
    ELSE IF Filter(db, Targets(sx, over)) # <<>> THEN Filter(db, Targets(sx, over))
    ELSE Filter(db, all_courts)

get_candidate_cards(db, self_flag, sx, over) ==
    IF ~self_flag THEN db
    ELSE IF Filter(db, Targets(sx, over)) # <<>> THEN Filter(db, Targets(sx, over))
    ELSE IF Filter(db, all_courts) # <<>> THEN Filter(db, all_courts)
    ELSE db

(***************************************************************************)
(* The similarity selector.  TfidfVectorizer's weights are real numbers:   *)
(* idf(t) = ln((1 + n) / (1 + df(t))) + 1, each row scaled to unit length. *)
(* The model keeps idf in tenths (Ln10[k] is 10 ln k, rounded) and         *)
(* compares two scores exactly as fractions: the score of document i is    *)
(* Dot(i) / (|doc i| |query|), and |query| is the same for every i.        *)
(***************************************************************************)
Ln10 == <<0, 7, 11, 14, 16, 18, 19, 21, 22, 23, 24, 25, 26, 26, 27, 28, 28, 29>>

Count(toks, t) == Cardinality({i \in 1..Len(toks) : toks[i] = t})

\* the corpus: every candidate's symbol, then the query
Corpus(cands, query_en) ==
    [i \in 1..(Len(cands) + 1) |->
        IF i <= Len(cands) THEN Tokens(cands[i].symbol) ELSE Tokens(query_en)]

Vocabulary(corpus) == UNION {Range(corpus[i]) : i \in 1..Len(corpus)}

Df(corpus, t) == Cardinality({i \in 1..Len(corpus) : t \in Range(corpus[i])})

Idf(corpus, t) == Ln10[1 + Len(corpus)] - Ln10[1 + Df(corpus, t)] + 10

RECURSIVE SumOver(_, _, _, _)
\* the sum over the terms t of set T of w(doc)(t) * w(other)(t), unscaled
SumOver(T, corpus, a, b) ==
    IF T = {} THEN 0
    ELSE LET t == CHOOSE x \in T : TRUE
         IN  Count(corpus[a], t) * Count(corpus[b], t)
                 * Idf(corpus, t) * Idf(corpus, t)
             + SumOver(T \ {t}, corpus, a, b)

Dot(corpus, i) == SumOver(Vocabulary(corpus), corpus, i, Len(corpus))
Norm2(corpus, i) == SumOver(Vocabulary(corpus), corpus, i, i)

\* a/b < c/d for a, c >= 0 and b, d > 0, by continued fractions
RECURSIVE FracLess(_, _, _, _)
FracLess(a, b, c, d) ==
    IF a \div b # c \div d THEN a \div b < c \div d
    ELSE IF c % d = 0 THEN FALSE
    ELSE IF a % b = 0 THEN TRUE
    ELSE FracLess(d, c % d, b, a % b)

\* sims[i] < sims[j]
SimLess(corpus, i, j) ==
    IF Dot(corpus, j) = 0 THEN FALSE
    ELSE IF Dot(corpus, i) = 0 THEN TRUE
    ELSE FracLess(Dot(corpus, i) * Dot(corpus, i), Norm2(corpus, i),
                  Dot(corpus, j) * Dot(corpus, j), Norm2(corpus, j))

\* numpy argmax: the first index holding the maximum
argmax(corpus, n) ==
    CHOOSE i \in 1..n :
        /\ \A j \in 1..n : ~SimLess(corpus, i, j)
        /\ \A j \in 1..(i - 1) : SimLess(corpus, j, i)

EmptyCard == NoFields

\* the blank test without strip ("if not query_en:")
IsBlank_nostrip(text) == text = <<>>

IsBlank(text) == strip(text) = <<>>

\* TfidfVectorizer().fit raises ValueError("empty vocabulary") when no
\* document of the corpus holds a token
choose_card_raises(cands, query_en) ==
    /\ cands # <<>>
    /\ ~IsBlank(query_en)
    /\ Vocabulary(Corpus(cands, query_en)) = {}

\* the cards choose_card may return
choose_card(cands, query_en) ==
    IF cands = <<>> THEN {EmptyCard}
    ELSE IF IsBlank(query_en) THEN Range(cands)
    ELSE {cands[argmax(Corpus(cands, query_en), Len(cands))]}

(***************************************************************************)
(* The spread dealer.  random.sample and random.choice read a tape of      *)
(* random numbers; the model numbers the tapes 0..MaxSeed.                 *)
(***************************************************************************)
\* the t-th call of the tape, randbelow(n)
Draw(seed, t, n) == (((t + 1) * (t + 2)) \div 2 + seed * (t + 1)) % n

\* random.sample's loop for a small population: result[i] = pool[j];
\* pool[j] = pool[n - i - 1]
RECURSIVE SampleFrom(_, _, _, _)
SampleFrom(pool, i, k, seed) ==
    IF i = k THEN <<>>
    ELSE LET n == Len(pool)
             j == Draw(seed, i, n - i) + 1
         IN  <<pool[j]>> \o SampleFrom([pool EXCEPT ![j] = pool[n - i]], i + 1, k, seed)

\* random.sample raises ValueError when the sample is larger than the pool
sample_raises(pool, k) == k > Len(pool)

sample(pool, k, seed) == SampleFrom(pool, 0, k, seed)

RECURSIVE Pool(_, _)
Pool(db, sig_img_id) ==
    IF db = <<>> THEN <<>>
    ELSE IF Head(db).img_id # sig_img_id
         THEN <<Head(db)>> \o Pool(Tail(db), sig_img_id)
         ELSE Pool(Tail(db), sig_img_id)

Orientations == <<"upright", "reversed">>

\* a dealer that refuses a pool of exactly ten cards
generate_spread_raises_offbyone(db, sig_img_id) ==
    SpreadSize >= Len(Pool(db, sig_img_id))

generate_spread_raises(db, sig_img_id) ==
    sample_raises(Pool(db, sig_img_id), SpreadSize)

Deal(pool, seed) ==
    LET chosen == sample(pool, SpreadSize, seed)
    IN  [i \in 1..Len(chosen) |->
            [index |-> i, card |-> chosen[i],
             orientation |-> Orientations[Draw(seed, SpreadSize + i - 1, 2) + 1]]]

\* the spreads generate_spread may return
generate_spread(db, sig_img_id) ==
    {Deal(Pool(db, sig_img_id), seed) : seed \in 0..MaxSeed}

(***************************************************************************)
(* The main flow of one submitted reading.                                 *)
(***************************************************************************)
Sexes == {"male", "female", "other"}

\* what the questioner may type: nothing, blanks, a question
Queries == {<<>>, <<" ">>, <<"koi", " ">>}

\* what the model answers to the translation prompt (resp.content)
Responses == {<<"?", " ">>, <<"Love", " ", "sword">>, <<" ", "love">>}

NoCard == [unset |-> TRUE]
NoStream == [open |-> FALSE, remaining |-> 0, buf |-> <<>>]

\* translate_query: "" for a blank query without calling the model,
\* otherwise the stripped answer
translate_invokes(query) == ~IsBlank(query)

translate_query(query, resp) == IF IsBlank(query) THEN <<>> ELSE strip(resp)

\* the flow without its candidates check
CandidatesUnavailable_never(cands) == FALSE

\* "if not candidates:"
CandidatesUnavailable(cands) == cands = <<>>

\* sig_card.get("img_id", "00")
SigImgId(card) == Get(card, "img_id", "00")

\* all_cards: the significator at index 0, then the spread
SigDealt(card, img) ==
    [index |-> 0, img_id |-> img, name |-> Get(card, "name", ""),
     looking |-> Get(card, "looking", "unclear"),
     orientation |-> "N/A (Significator)", symbol |-> Get(card, "symbol", <<>>)]

SpreadDealt(c) ==
    [index |-> c.index, img_id |-> c.card.img_id, name |-> c.card.name,
     orientation |-> c.orientation, symbol |-> c.card.symbol]

\* an assembly that lays the spread out by catalog index
AllCards_sorted(card, img, sp) ==
    LET keyed == SortByIndex([i \in 1..Len(sp) |->
                                 [index |-> sp[i].card.index, c |-> sp[i]]])
    IN  <<SigDealt(card, img)>> \o [i \in 1..Len(sp) |-> SpreadDealt(keyed[i].c)]

AllCards(card, img, sp) ==
    <<SigDealt(card, img)>> \o [i \in 1..Len(sp) |-> SpreadDealt(sp[i])]

\* a rotation rule with the two orientations exchanged
Rotation_exchanged(c) ==
    IF c.index = 0 THEN 0 ELSE IF c.orientation = "upright" THEN 180 ELSE 0

Rotation(c) ==
    IF c.index = 0 THEN 0 ELSE IF c.orientation = "reversed" THEN 180 ELSE 0

\* the angle of the image shown above a card's reading
angle(c) ==
    IF Get(c, "index", 0) = 0 THEN 0
    ELSE IF Get(c, "orientation", "upright") = "reversed" THEN 180 ELSE 0

Rotations(cards) == [i \in 1..Len(cards) |-> Rotation(cards[i])]

\* a layout that ignores the significator's looking
Layouts_random(looking) == {"right", "left"}

\* layout if layout in ["right", "left"] else random.choice(["right", "left"])
Layouts(looking) == IF looking \in {"right", "left"} THEN {looking} ELSE {"right", "left"}

\* render_layout_css: the "left:" percentages of .card-pos5 and .card-pos6
render_layout_css(lay) ==
    IF lay = "right" THEN [pos5 |-> 4, pos6 |-> 61] ELSE [pos5 |-> 61, pos6 |-> 4]

\* the prompt of each narrative call, as far as it depends on earlier text
reading_stream(c) == [kind |-> "card", idx |-> c.index, summary |-> <<>>]
conclusion_stream(cards) == [kind |-> "summary", idx |-> Len(cards), summary |-> <<>>]
advice_stream(cards, conclusion) ==
    [kind |-> "advice", idx |-> Len(cards) + 1, summary |-> conclusion]

\* a write_stream that returns before its iterator is exhausted
WriteStreamDone_early(st) == TRUE

\* write_stream returns when the iterator is exhausted
WriteStreamDone(st) == st.remaining = 0

Init ==
    /\ source \in Sources
    /\ cards_db = load_tarot_cards(source)
    /\ bad = load_bad(source)
    /\ pc = "form"
    /\ sex = "male" /\ over_40 = FALSE /\ is_self = TRUE /\ query_text = <<>>
    /\ translated_query = <<>>
    /\ candidates = <<>>
    /\ sig_card = NoCard
    /\ spread = <<>>
    /\ all_cards = <<>>
    /\ rotations = <<>>
    /\ layout = "none"
    /\ css = NoFields
    /\ calls = <<>>
    /\ stream = NoStream
    /\ card_readings = <<>>
    /\ conclusion_text = <<>>
    /\ advice_text = <<>>
    /\ error = "none"

Submit ==
    /\ pc = "form"
    /\ \E sx \in Sexes, ov \in BOOLEAN, sf \in BOOLEAN, q \in Queries :
          /\ sex' = sx /\ over_40' = ov /\ is_self' = sf /\ query_text' = q
    /\ pc' = "translate"
    /\ UNCHANGED <<source, cards_db, bad, translated_query, candidates, sig_card,
                   spread, all_cards, rotations, layout, css, calls, stream,
                   card_readings, conclusion_text, advice_text, error>>

Raise(what) ==
    /\ pc' = "error"
    /\ error' = what

Translate ==
    /\ pc = "translate"
    /\ IF translate_invokes(query_text)
       THEN \E resp \in Responses :
                translated_query' = translate_query(query_text, resp)
       ELSE translated_query' = translate_query(query_text, <<>>)
    /\ pc' = "candidates"
    /\ UNCHANGED <<source, cards_db, bad, sex, over_40, is_self, query_text,
                   candidates, sig_card, spread, all_cards, rotations, layout,
                   css, calls, stream, card_readings, conclusion_text,
                   advice_text, error>>

\* chat.invoke raises (the server is down, the request fails): nothing
\* catches it
TranslateFails ==
    /\ pc = "translate"
    /\ translate_invokes(query_text)
    /\ Raise("LLMError: chat.invoke")
    /\ UNCHANGED <<source, cards_db, bad, sex, over_40, is_self, query_text,
                   translated_query, candidates, sig_card, spread, all_cards,
                   rotations, layout, css, calls, stream, card_readings,
                   conclusion_text, advice_text>>

GetCandidates ==
    /\ pc = "candidates"
    /\ candidates' = get_candidate_cards(cards_db, is_self, sex, over_40)
    /\ pc' = "check"
    /\ UNCHANGED <<source, cards_db, bad, sex, over_40, is_self, query_text,
                   translated_query, sig_card, spread, all_cards, rotations,
                   layout, css, calls, stream, card_readings, conclusion_text,
                   advice_text, error>>

\* st.error(...); st.stop() when there is no candidate
CheckCandidates ==
    /\ pc = "check"
    /\ IF CandidatesUnavailable(candidates)
       THEN pc' = "stopped" /\ error' = "DataUnavailable"
       ELSE pc' = "choose" /\ error' = error
    /\ UNCHANGED <<source, cards_db, bad, sex, over_40, is_self, query_text,
                   translated_query, candidates, sig_card, spread, all_cards,
                   rotations, layout, css, calls, stream, card_readings,
                   conclusion_text, advice_text>>

ChooseCard ==
    /\ pc = "choose"
    /\ IF choose_card_raises(candidates, translated_query)
       THEN Raise("ValueError: empty vocabulary") /\ sig_card' = sig_card
       ELSE /\ sig_card' \in choose_card(candidates, translated_query)
            /\ pc' = "deal"
            /\ error' = error
    /\ UNCHANGED <<source, cards_db, bad, sex, over_40, is_self, query_text,
                   translated_query, candidates, spread, all_cards, rotations,
                   layout, css, calls, stream, card_readings, conclusion_text,
                   advice_text>>

DealSpread ==
    /\ pc = "deal"
    /\ IF generate_spread_raises(cards_db, SigImgId(sig_card))
       THEN Raise("ValueError: sample larger than population") /\ spread' = spread
       ELSE /\ spread' \in generate_spread(cards_db, SigImgId(sig_card))
            /\ pc' = "board"
            /\ error' = error
    /\ UNCHANGED <<source, cards_db, bad, sex, over_40, is_self, query_text,
                   translated_query, candidates, sig_card, all_cards, rotations,
                   layout, css, calls, stream, card_readings, conclusion_text,
                   advice_text>>

\* all_cards, rotations, the layout choice and its CSS
RenderBoard ==
    /\ pc = "board"
    /\ all_cards' = AllCards(sig_card, SigImgId(sig_card), spread)
    /\ rotations' = Rotations(all_cards')
    /\ layout' \in Layouts(Get(all_cards'[1], "looking", "unclear"))
    /\ css' = render_layout_css(layout')
    /\ pc' = "readings"
    /\ UNCHANGED <<source, cards_db, bad, sex, over_40, is_self, query_text,
                   translated_query, candidates, sig_card, spread, calls,
                   stream, card_readings, conclusion_text, advice_text, error>>

(***************************************************************************)
(* The narrative calls.  A call is logged in calls when its stream is      *)
(* opened, with the number of chunks the model has yet to yield (left).    *)
(* The text of a stream is the sequence of its chunks.                     *)
(* card_readings keeps the index of each finished reading (its title and   *)
(* body are never read again).                                             *)
(***************************************************************************)
\* the prompt of the call the flow is about to make
NextPrompt ==
    IF pc = "readings" THEN reading_stream(all_cards[Len(card_readings) + 1])
    ELSE IF pc = "conclusion" THEN conclusion_stream(all_cards)
    ELSE advice_stream(all_cards, conclusion_text)

Chunk(call, n) == [kind |-> call.kind, idx |-> call.idx, n |-> n]

\* write_stream(..._stream(...)) starts iterating chat.stream(messages)
StartCall ==
    /\ pc \in {"readings", "conclusion", "advice"}
    /\ ~stream.open
    /\ \E k \in 0..MaxChunks :
          /\ calls' = Append(calls, NextPrompt @@ [left |-> k])
          /\ stream' = [open |-> TRUE, remaining |-> k, buf |-> <<>>]
    /\ UNCHANGED <<source, cards_db, bad, pc, sex, over_40, is_self, query_text,
                   translated_query, candidates, sig_card, spread, all_cards,
                   rotations, layout, css, card_readings, conclusion_text,
                   advice_text, error>>

\* "for piece in text_iter": one more chunk arrives and is rendered
ConsumeChunk ==
    /\ stream.open
    /\ stream.remaining > 0
    /\ LET call == calls[Len(calls)]
       IN  /\ stream' = [stream EXCEPT
                            !.remaining = @ - 1,
                            !.buf = Append(@, Chunk(call, Len(@) + 1))]
           /\ calls' = [calls EXCEPT ![Len(calls)].left = @ - 1]
    /\ UNCHANGED <<source, cards_db, bad, pc, sex, over_40, is_self, query_text,
                   translated_query, candidates, sig_card, spread, all_cards,
                   rotations, layout, css, card_readings, conclusion_text,
                   advice_text, error>>

\* write_stream returns the whole text
FinishCall ==
    /\ stream.open
    /\ WriteStreamDone(stream)
    /\ stream' = NoStream
    /\ \/ /\ pc = "readings"
          /\ card_readings' = Append(card_readings, calls[Len(calls)].idx)
          /\ pc' = IF Len(card_readings') = Len(all_cards) THEN "conclusion" ELSE pc
          /\ UNCHANGED <<conclusion_text, advice_text>>
       \/ /\ pc = "conclusion"
          /\ conclusion_text' = stream.buf
          /\ pc' = "advice"
          /\ UNCHANGED <<card_readings, advice_text>>
       \/ /\ pc = "advice"
          /\ advice_text' = stream.buf
          /\ pc' = "done"
          /\ UNCHANGED <<card_readings, conclusion_text>>
    /\ UNCHANGED <<source, cards_db, bad, sex, over_40, is_self, query_text,
                   translated_query, candidates, sig_card, spread, all_cards,
                   rotations, layout, css, calls, error>>

\* chat.stream raises while the stream is read
StreamFails ==
    /\ stream.open
    /\ Raise("LLMError: chat.stream")
    /\ stream' = NoStream
    /\ UNCHANGED <<source, cards_db, bad, sex, over_40, is_self, query_text,
                   translated_query, candidates, sig_card, spread, all_cards,
                   rotations, layout, css, calls, card_readings,
                   conclusion_text, advice_text>>

\* the page is loaded again: a new run of the script, the catalog cached
Rerun ==
    /\ pc \in {"done", "stopped", "error"}
    /\ pc' = "form"
    /\ sex' = "male" /\ over_40' = FALSE /\ is_self' = TRUE /\ query_text' = <<>>
    /\ translated_query' = <<>>
    /\ candidates' = <<>>
    /\ sig_card' = NoCard
    /\ spread' = <<>>
    /\ all_cards' = <<>>
    /\ rotations' = <<>>
    /\ layout' = "none"
    /\ css' = NoFields
    /\ calls' = <<>>
    /\ stream' = NoStream
    /\ card_readings' = <<>>
    /\ conclusion_text' = <<>>
    /\ advice_text' = <<>>
    /\ error' = "none"
    /\ UNCHANGED <<source, cards_db, bad>>

Next ==
    \/ Submit
    \/ Translate
    \/ TranslateFails
    \/ GetCandidates
    \/ CheckCandidates
    \/ ChooseCard
    \/ DealSpread
    \/ RenderBoard
    \/ StartCall
    \/ ConsumeChunk
    \/ FinishCall
    \/ StreamFails
    \/ Rerun

Spec == Init /\ [][Next]_vars

(***************************************************************************)
(* Properties.                                                             *)
(***************************************************************************)
\* the pool the dealer samples from, for the chosen significator
DealPool == Pool(cards_db, SigImgId(sig_card))

\* C1: in every completed reading the eleven cards used (the significator
\* and the ten spread cards) have pairwise distinct img_id.
C1_DistinctIdentities ==
    pc = "done" =>
        /\ Len(all_cards) = SpreadSize + 1
        /\ \A i, j \in 1..Len(all_cards) :
              i # j => all_cards[i].img_id # all_cards[j].img_id

\* C2: generate_spread returns exactly ten dealt cards, at positions 1..10,
\* whenever the pool has at least ten cards; with a pool of exactly ten every
\* pool card is dealt exactly once; with a smaller pool the deal raises and
\* no spread, not even a shorter one, is returned.
C2_SpreadSize ==
    /\ pc \in {"board", "readings", "conclusion", "advice", "done"}
          => Len(spread) = SpreadSize
    /\ pc = "board" =>
          /\ Len(DealPool) >= SpreadSize
          /\ \A i \in 1..Len(spread) :
                spread[i].index = i /\ spread[i].card \in Range(DealPool)
          /\ Len(DealPool) = SpreadSize =>
                \A p \in 1..Len(DealPool) :
                    Cardinality({i \in 1..Len(spread) :
                                    spread[i].card = DealPool[p]}) = 1
    /\ pc = "error" =>
          /\ Len(spread) \in {0, SpreadSize}
          /\ error = "ValueError: sample larger than population" =>
                Len(DealPool) < SpreadSize /\ spread = <<>>
    /\ pc = "deal" => spread = <<>>

C2_Witness ==
    /\ pc = "board"
    /\ Len(DealPool) = SpreadSize
    /\ Len(spread) = SpreadSize

\* the catalog cards, in catalog order, whose name begins with "<rank> of "
\* for a rank of the set
C_Begins(name, rank) ==
    Len(name) >= Len(rank) + 4 /\ SubSeq(name, 1, Len(rank) + 4) = rank \o " of "

C_WithRank(ranks) ==
    LET Test(c) == \E r \in ranks : C_Begins(c.name, r)
    IN  SelectSeq(cards_db, Test)

C_TargetRanks ==
    [d \in Sexes \X BOOLEAN |->
        CASE d = <<"male", TRUE>> -> {"Knight"}
          [] d = <<"male", FALSE>> -> {"King"}
          [] d = <<"female", TRUE>> -> {"Queen"}
          [] d = <<"female", FALSE>> -> {"Page"}
          [] d = <<"other", TRUE>> -> {"Knight", "Queen"}
          [] d = <<"other", FALSE>> -> {"King", "Page"}]

C_FourRanks == {"Page", "Knight", "Queen", "King"}

\* C3: for a non-empty catalog get_candidate_cards never returns an empty
\* list, whatever self_flag, sex and over_40 are: when no card has a target
\* rank it returns the cards of the four court ranks, and when there is none
\* of those either, the full catalog.
C3_NeverEmpty ==
    (pc = "check" /\ cards_db # <<>>) =>
        /\ candidates # <<>>
        /\ (is_self /\ C_WithRank(C_TargetRanks[<<sex, over_40>>]) = <<>>) =>
              IF C_WithRank(C_FourRanks) # <<>>
              THEN candidates = C_WithRank(C_FourRanks)
              ELSE candidates = cards_db

C3_Witness ==
    /\ pc = "check"
    /\ is_self
    /\ Len(cards_db) >= 2
    /\ C_WithRank(C_FourRanks) = <<>>
    /\ candidates = cards_db

\* C4: get_candidate_cards returns the full catalog unchanged when self_flag
\* is false; when it is true and some card matches, exactly the catalog
\* cards, in catalog order, whose name begins with "<Rank> of " for a rank
\* of the target set of the table (sex, over 40).
C4_FilterTable ==
    pc = "check" =>
        /\ ~is_self => candidates = cards_db
        /\ (is_self /\ C_WithRank(C_TargetRanks[<<sex, over_40>>]) # <<>>) =>
              candidates = C_WithRank(C_TargetRanks[<<sex, over_40>>])

C4_Witness ==
    /\ pc = "check"
    /\ is_self /\ sex = "male" /\ over_40
    /\ Len(candidates) = 2
    /\ Len(cards_db) > 4
    /\ \A i \in 1..Len(candidates) : C_Begins(candidates[i].name, "Knight")

\* the first candidate holding the maximum similarity to the translated query
C_FirstMax ==
    LET corpus == Corpus(candidates, translated_query)
    IN  CHOOSE i \in 1..Len(candidates) :
            /\ \A j \in 1..Len(candidates) : ~SimLess(corpus, i, j)
            /\ \A j \in 1..(i - 1) : SimLess(corpus, j, i)

\* C5: for a non-blank query and a non-empty candidate list choose_card
\* always returns a candidate, the same one every time: the one with the
\* maximum similarity score, the first of them in candidate order on a tie
\* (also when every score is zero).
C5_FirstMaximum ==
    /\ error # "ValueError: empty vocabulary"
    /\ (pc = "deal" /\ ~IsBlank(translated_query)) =>
          sig_card = candidates[C_FirstMax]

C_BlankQueries == {<<>>, <<" ">>, <<" ", " ">>}

\* C6: for an empty or whitespace-only query and a non-empty candidate list
\* choose_card returns a member of the list, and every candidate is a
\* possible result.
C6_BlankRandom ==
    /\ (pc = "choose" /\ candidates # <<>>) =>
          \A q \in C_BlankQueries :
              /\ ~choose_card_raises(candidates, q)
              /\ choose_card(candidates, q) = Range(candidates)
    /\ (pc = "deal" /\ translated_query \in C_BlankQueries) =>
          sig_card \in Range(candidates)

C6_Witness ==
    /\ pc = "deal"
    /\ translated_query = <<>>
    /\ Len(candidates) >= 3
    /\ sig_card = candidates[Len(candidates)]
    /\ sig_card # candidates[1]

\* C7: when the candidate list is empty (the catalog failed to load or is
\* empty) the reading stops with the data-unavailable error: no significator
\* is selected, no spread is dealt, no card is made up and no per-card,
\* summary or advice call is made.
C7_DataUnavailable ==
    /\ pc = "stopped" =>
          /\ error = "DataUnavailable"
          /\ candidates = <<>>
          /\ sig_card = NoCard /\ spread = <<>> /\ all_cards = <<>>
          /\ calls = <<>> /\ ~stream.open /\ card_readings = <<>>
    /\ pc \in {"choose", "deal", "board", "readings", "conclusion", "advice", "done"}
          => candidates # <<>> /\ cards_db # <<>>
    /\ (sig_card # NoCard \/ spread # <<>> \/ all_cards # <<>> \/ calls # <<>>)
          => candidates # <<>> /\ cards_db # <<>>

C7_Witness ==
    /\ pc = "stopped"
    /\ error = "DataUnavailable"
    /\ cards_db = <<>>
    /\ source.kind = "missing"
    /\ translated_query # <<>>

\* C8: a failure of the translation service does not end the reading: the
\* query counts as blank, the significator is drawn at random and the
\* reading goes on to the deal.
C8_TranslationFailureTolerated ==
    error # "LLMError: chat.invoke"

C_Stages == SpreadSize + 3

C_ExpectedKind(s) ==
    IF s <= SpreadSize + 1 THEN "card"
    ELSE IF s = SpreadSize + 2 THEN "summary" ELSE "advice"

C9_Order ==
    pc \in {"readings", "conclusion", "advice", "done", "error"} =>
        /\ Len(calls) <= C_Stages
        /\ \A s \in 1..Len(calls) :
              /\ calls[s].kind = C_ExpectedKind(s)
              /\ calls[s].idx = s - 1
              /\ s < Len(calls) => calls[s].left = 0
        /\ Len(calls) = C_Stages => calls[C_Stages].summary = conclusion_text
        /\ pc = "done" => Len(calls) = C_Stages /\ calls[C_Stages].left = 0

C9_Step ==
    /\ (pc = "conclusion" /\ pc' = "advice") =>
          /\ stream.open /\ stream.remaining = 0
          /\ conclusion_text' = stream.buf
    /\ pc = "advice" => conclusion_text' = conclusion_text \/ pc' = "form"
    /\ Len(calls') > Len(calls) => ~stream.open

\* C9: the narrative calls of a reading are made in order: the per-card
\* calls for positions 0, 1, ..., 10, then the summary, then the advice; no
\* call starts before the stream of the one before it is read to its end,
\* and the advice prompt holds the whole text the summary call produced.
C9_NarrativeOrder == []C9_Order /\ [][C9_Step]_vars

C9_Witness ==
    /\ pc = "done"
    /\ Len(calls) = C_Stages
    /\ Len(card_readings) = SpreadSize + 1
    /\ conclusion_text # <<>>
    /\ calls[C_Stages].summary = conclusion_text

\* C10: positions 5 and 6 take the two opposite side slots, never the same
\* one: position 6 on the right (left: 61%) and 5 on the left (left: 4%) when
\* the significator looks right, the reverse when it looks left, and for any
\* other value one of the two mirrored layouts, chosen once for both slots.
C10_MirroredSlots ==
    layout # "none" =>
        LET looking == Get(sig_card, "looking", "unclear")
        IN  /\ layout \in {"right", "left"}
            /\ {css.pos5, css.pos6} = {4, 61}
            /\ looking = "right" => css.pos6 = 61 /\ css.pos5 = 4
            /\ looking = "left" => css.pos6 = 4 /\ css.pos5 = 61
            /\ layout = "right" <=> css.pos6 = 61

C10_Witness ==
    /\ pc = "readings"
    /\ Get(sig_card, "looking", "unclear") = "Right"
    /\ layout = "left"
    /\ css.pos5 = 61 /\ css.pos6 = 4

(***************************************************************************)
(* C11: the dealt cards of a reading are the significator, carrying        *)
(* position index 0, followed by the ten spread cards in the order they    *)
(* were sampled, carrying position indices 1..10; the card at list offset  *)
(* i carries position index i and the spread's i-th card and orientation,  *)
(* and the card readings are made in that order.                           *)
(***************************************************************************)
C11_DealtOrder ==
    /\ pc = "board" =>
           \E seed \in 0..MaxSeed :
               [i \in 1..Len(spread) |-> spread[i].card]
                   = sample(DealPool, SpreadSize, seed)
    /\ pc \in {"readings", "conclusion", "advice", "done"} => all_cards # <<>>
    /\ all_cards # <<>> =>
        /\ Len(all_cards) = SpreadSize + 1
        /\ \A i \in 0..SpreadSize : all_cards[i + 1].index = i
        /\ all_cards[1].img_id = SigImgId(sig_card)
        /\ all_cards[1].name = Get(sig_card, "name", "")
        /\ \A i \in 1..SpreadSize :
               /\ spread[i].index = i
               /\ all_cards[i + 1].img_id = spread[i].card.img_id
               /\ all_cards[i + 1].name = spread[i].card.name
               /\ all_cards[i + 1].symbol = spread[i].card.symbol
               /\ all_cards[i + 1].orientation = spread[i].orientation
        /\ \A k \in 1..Len(card_readings) : card_readings[k] = k - 1

\* a finished reading whose spread was sampled out of catalog order
C11_Witness ==
    /\ pc = "done"
    /\ Len(all_cards) = SpreadSize + 1
    /\ Len(card_readings) = SpreadSize + 1
    /\ \E i, j \in 1..SpreadSize :
           i < j /\ spread[i].card.index > spread[j].card.index

(***************************************************************************)
(* C12: the significator, at position 0, has the not-applicable            *)
(* orientation and is rendered with rotation 0; every card at positions    *)
(* 1..10 is upright or reversed and is rotated by 180 degrees exactly when *)
(* it is reversed, on the board and above its reading alike.               *)
(***************************************************************************)
C12_Rotations ==
    all_cards # <<>> =>
        /\ Len(rotations) = Len(all_cards)
        /\ all_cards[1].orientation = "N/A (Significator)"
        /\ rotations[1] = 0
        /\ angle(all_cards[1]) = 0
        /\ \A i \in 2..Len(all_cards) :
               /\ all_cards[i].orientation \in {"upright", "reversed"}
               /\ rotations[i] \in {0, 180}
               /\ rotations[i] = 180 <=> all_cards[i].orientation = "reversed"
               /\ angle(all_cards[i]) = rotations[i]

\* a rendered board with both an upright and a reversed card
C12_Witness ==
    /\ pc = "readings"
    /\ Len(rotations) = SpreadSize + 1
    /\ \E i, j \in 2..Len(all_cards) :
           /\ all_cards[i].orientation = "reversed" /\ rotations[i] = 180
           /\ all_cards[j].orientation = "upright" /\ rotations[j] = 0

(***************************************************************************)
(* C13: after load_tarot_cards the indices of the catalog are strictly     *)
(* ascending (hence unique), each img_id is the index written with at      *)
(* least two digits, every element of the file is either a card of the     *)
(* catalog or counted as skipped, and a missing, unparseable or non-list   *)
(* source gives the empty catalog and no exception.                        *)
(***************************************************************************)
C_Digits == <<"0", "1", "2", "3", "4", "5", "6", "7", "8", "9">>

C_StrictlyAscending ==
    \A i, j \in 1..Len(cards_db) :
        i < j => cards_db[i].index < cards_db[j].index

C_ZeroPadded ==
    \A i \in 1..Len(cards_db) :
        LET idx == cards_db[i].index
        IN  /\ idx \in 0..99
            /\ cards_db[i].img_id =
                   C_Digits[(idx \div 10) + 1] \o C_Digits[(idx % 10) + 1]

C_SkippedCounted ==
    /\ source.kind = "list" => Len(cards_db) + bad = Len(source.data)
    /\ source.kind # "list" => cards_db = <<>> /\ bad = 0
    /\ pc = "form" => error = "none"

C13_LoadedCatalog ==
    /\ C_StrictlyAscending
    /\ C_ZeroPadded
    /\ C_SkippedCounted

============================================================================
